---- MODULE Spec2Model ----
(***************************************************************************)
(* The event-driven core of the ride-hailing system: the RabbitBus broker  *)
(* client (shared/event_bus/rabbit.py), the driver reactor                 *)
(* (driver_service/app/main.py + store.py) and the trip reactor            *)
(* (trip_service/app/main.py + store.py).                                  *)
(*                                                                         *)
(* Python values are encoded as follows.  An optional value is a sequence  *)
(* of length at most one: None is <<>> and a present value v is <<v>>.     *)
(* A dict is a TLA+ function whose DOMAIN is the set of its keys, so a     *)
(* missing key and a key holding JSON null are different dicts that        *)
(* dict.get() maps to the same None.                                       *)
(***************************************************************************)
EXTENDS Integers, Sequences, FiniteSets, TLC

\* ------------------------------------------------------------------ bounds
MaxTrips == 2
MaxDrivers == 2
MaxTasks == 2
MaxPending == 1

TripIds == {"t" \o ToString(i) : i \in 1..MaxTrips}
DriverIds == {"d" \o ToString(i) : i \in 1..MaxDrivers}
TaskIds == 1..MaxTasks

\* ------------------------------------------------------------ Python values
None == <<>>
Some(v) == <<v>>

\* dict.get(key): the value under key, None when the key is missing
Get(d, k) == IF k \in DOMAIN d THEN d[k] ELSE None

\* Python truthiness of an optional string: None and "" are falsy
Truthy(v) == v # None /\ v # Some("")

\* float(x) of a JSON number: numerically the same value (exact for the
\* small integer prices of the model)
Float(x) == x

\* ------------------------------------------------------------ event envelope
EnvelopeFields == {"name", "id", "ts", "source", "payload"}

BaseEvent(name, id, ts, source, payload) ==
    [name |-> name, id |-> id, ts |-> ts, source |-> source, payload |-> payload]

\* json.dumps(event.__dict__): the JSON object of the five attributes
Encode(event) == [f \in EnvelopeFields |-> event[f]]

\* BaseEvent(**json.loads(body)) succeeds iff the keys are exactly the five
\* fields of the dataclass (a missing or an unexpected key is a TypeError)
Decodable(body) == DOMAIN body = EnvelopeFields
Decode(body) ==
    BaseEvent(body["name"], body["id"], body["ts"], body["source"], body["payload"])

\* a JSON object without the key f
Without(body, f) == [k \in DOMAIN body \ {f} |-> body[k]]

\* -------------------------------------------------------------- names
Services == {"trip", "driver"}
\* SERVICE_NAME of each service (the source field of the events it emits)
SERVICE_NAME == [s \in Services |-> s \o "-service"]

EventNames == {"trip.requested", "driver.assigned", "pricing.quoted"}
QueueNames == {"driver.trip-requested", "trip.driver-assigned", "trip.pricing-quoted"}

\* the handlers registered by the services, and dummy_handler: any handler
\* passed to subscribe, of which only the outcome (returns or raises) is known
Handlers == {"on_trip_requested", "on_driver_assigned", "on_pricing_quoted",
             "dummy_handler"}

NotConnected == "RuntimeError: RabbitBus not connected"
ChannelClosed == "ChannelInvalidStateError"

VARIABLES
    bus,      \* [Services -> RabbitBus]: state of _conn, _channel, _exchange
    queues,   \* the broker: queue name -> [declared, bindings, consumers, msgs]
    drivers,  \* driver store: rows of the drivers table, id -> [name, available]
    trips,    \* trip store: rows of the trips table, id -> Trip
    tasks,    \* on_trip_requested invocations in flight
    pending,  \* create_trip requests between store.create and bus.publish
    picks,    \* per driver: handlers that picked it since it was last made available
    connected,\* the services whose bus has completed a connect()
    log,      \* the broker's record of the messages routed, delivered and handled
    clock,    \* the system clock of a process and the ts of the events it emitted
    redis,    \* the Redis of the pricing service: key -> the text stored under it
    cached,   \* per rule id: the rule data last cached and not invalidated since
    last      \* the last operation: [op, arg, err, sent, ack, rep]

\* what the trip service, the driver service and the bus leave alone
others == <<clock, redis, cached>>

vars == <<bus, queues, drivers, trips, tasks, pending, picks, connected, log, clock,
          redis, cached, last>>

\* -------------------------------------------------------------- RabbitBus
\* RabbitBus.__init__: nothing connected.  Each field holds the state of
\* the object it refers to: "None", "open" or "closed".
RabbitBus == [conn |-> "None", channel |-> "None", exchange |-> "None"]

\* connect() awaits three calls in turn; each may raise, which leaves the
\* fields assigned so far and skips the rest
ConnectOutcomes == {"ok", "connect_failed", "channel_failed", "exchange_failed"}

connect(b, outcome) ==
    CASE outcome = "connect_failed"  -> b
      [] outcome = "channel_failed"  -> [b EXCEPT !.conn = "open"]
      [] outcome = "exchange_failed" -> [b EXCEPT !.conn = "open", !.channel = "open"]
      [] outcome = "ok" -> [conn |-> "open", channel |-> "open", exchange |-> "open"]

\* a close() that closes the channel and the connection without testing
\* that they are set
close_unguarded(b) ==
    [conn |-> "closed", channel |-> "closed",
     exchange |-> IF b.exchange # "None" THEN "closed" ELSE "None"]

\* close(): closes the channel and the connection if set; _exchange keeps
\* referring to the exchange of the channel that is now closed
close(b) ==
    [conn     |-> IF b.conn # "None" THEN "closed" ELSE "None",
     channel  |-> IF b.channel # "None" THEN "closed" ELSE "None",
     exchange |-> IF b.exchange # "None" /\ b.channel # "None" THEN "closed"
                  ELSE b.exchange]

\* the error publish(event) ends in, "" when the message is sent
publish_error(b) ==
    IF b.exchange = "None" THEN NotConnected
    ELSE IF b.exchange = "closed" THEN ChannelClosed
    ELSE ""

\* the message publish(event) hands to the exchange
Message(event) == [rk |-> event.name, body |-> Encode(event)]

\* subscribe that tests the channel and not the exchange
subscribe_error_channel_only(b) ==
    IF b.channel = "None" THEN NotConnected
    ELSE IF b.channel = "closed" THEN ChannelClosed
    ELSE ""

\* the error subscribe(...) ends in, "" when the consumer is registered
subscribe_error(b) ==
    IF b.channel = "None" \/ b.exchange = "None" THEN NotConnected
    ELSE IF b.channel = "closed" THEN ChannelClosed
    ELSE ""

\* a message.process that acknowledges whatever the handler did
process_ack(err) == "ack"

\* message.process(requeue=False) on exit (rabbit.py 48): ack, or reject
\* when an exception leaves the block
process(err) == IF err = "" THEN "ack" ELSE "reject"

\* a queue whose rejected head goes back to its end
Settled_requeue(msgs, err) ==
    IF err = "" THEN Tail(msgs) ELSE Append(Tail(msgs), Head(msgs))

\* the queue once its head is acked or rejected with requeue=False: the
\* message is gone either way (no dead-letter exchange is declared)
Settled(msgs, err) == Tail(msgs)

\* -------------------------------------------------------------- the broker
NoQueue == [declared |-> FALSE, bindings |-> {}, consumers |-> {}, msgs |-> <<>>]
MaxQueue == 1

\* a fanout exchange: every declared queue takes every message
Routed_fanout(qs, msg) == {q \in QueueNames : qs[q].declared}

\* the topic exchange: a message goes to every declared queue bound with
\* its routing key, and to none when no binding matches
Routed(qs, msg) ==
    {q \in QueueNames : qs[q].declared /\ msg.rk \in qs[q].bindings}

\* an exchange that hands a message to one of the queues bound with its key
Route_one(qs, msg) ==
    [q \in QueueNames |->
        IF Routed(qs, msg) # {} /\ q = CHOOSE r \in Routed(qs, msg) : TRUE
        THEN [qs[q] EXCEPT !.msgs = Append(@, msg.body)]
        ELSE qs[q]]

Route(qs, msg) ==
    [q \in QueueNames |->
        IF q \in Routed(qs, msg) THEN [qs[q] EXCEPT !.msgs = Append(@, msg.body)]
        ELSE qs[q]]
HasRoom(qs, msg) == \A q \in Routed(qs, msg) : Len(qs[q].msgs) < MaxQueue

\* declare_queue(queue_name), queue.bind(exchange, event_name), queue.consume:
\* the consumer is the _on_message closure over the handler, registered by
\* the call for event_name
Subscribed(qs, svc, event_name, queue_name, handler) ==
    [qs EXCEPT ![queue_name] =
        [declared  |-> TRUE,
         bindings  |-> @.bindings \cup {event_name},
         consumers |-> @.consumers \cup
                           {[svc |-> svc, handler |-> handler, name |-> event_name]},
         msgs      |-> @.msgs]]

\* closing the channel of a service cancels the consumers registered on it
Cancelled(qs, svc) ==
    [q \in QueueNames |->
        [qs[q] EXCEPT !.consumers = {c \in @ : c.svc # svc}]]

NoArg == [none |-> "none"]
\* rep = 2 when the operation repeats the one before it on the same argument
Last(op, arg, err, sent, ack) ==
    [op |-> op, arg |-> arg, err |-> err, sent |-> sent, ack |-> ack,
     rep |-> IF last.op = op /\ last.arg = arg THEN 2 ELSE 1]

\* -------------------------------------------------------------- inputs
\* generate(size=12) and now_iso(): one opaque token each
NanoId == "id1"
Now == "2025-12-29T10:00:00Z"

DriverNames == {"n1"}
RiderIds == {"r1"}
Places == {[lat |-> 55, lng |-> 12]}
Prices == {0, 99}

\* Payloads as received.  A key may be missing, an id may be the empty
\* string, an id may name a row that does not exist (an id not created yet).
AnyTrip == CHOOSE t \in TripIds : TRUE
AnyDriver == CHOOSE d \in DriverIds : TRUE
AnyPrice == CHOOSE p \in Prices : TRUE

TripRequestedPayloads ==
    {[trip_id |-> Some(t), rider_id |-> Some(r)] : t \in TripIds, r \in RiderIds}
        \cup {[trip_id |-> Some(""), rider_id |-> Some(r)] : r \in RiderIds}
        \cup {[rider_id |-> Some(r)] : r \in RiderIds}
DriverAssignedPayloads ==
    {[trip_id |-> Some(t), driver_id |-> Some(d)] : t \in TripIds, d \in DriverIds}
        \cup {[trip_id |-> Some(""), driver_id |-> Some(AnyDriver)]}
        \cup {[trip_id |-> Some(t)] : t \in TripIds}
        \cup {[driver_id |-> Some(AnyDriver)]}
PricingQuotedPayloads ==
    {[trip_id |-> Some(t), estimated_price_dkk |-> Some(p)] : t \in TripIds, p \in Prices}
        \cup {[trip_id |-> Some(""), estimated_price_dkk |-> Some(AnyPrice)]}
        \cup {[trip_id |-> Some(t)] : t \in TripIds}
        \cup {[estimated_price_dkk |-> Some(AnyPrice)]}

Received(name, payloads) ==
    {Encode(BaseEvent(name, NanoId, Now, "publisher", p)) : p \in payloads}

\* message bodies the consumer on_trip_requested may receive: trip.requested
\* events, and an event of another name
DriverBodies ==
    Received("trip.requested", TripRequestedPayloads)
        \cup Received("driver.assigned",
                      {[trip_id |-> Some(AnyTrip), driver_id |-> Some(AnyDriver)]})

\* message bodies the consumer on_driver_assigned may receive
DriverAssignedBodies ==
    Received("driver.assigned", DriverAssignedPayloads)
        \cup Received("trip.completed",
                      {[trip_id |-> Some(AnyTrip), driver_id |-> Some(AnyDriver)]})

\* message bodies the consumer on_pricing_quoted may receive
PricingQuotedBodies ==
    Received("pricing.quoted", PricingQuotedPayloads)
        \cup Received("trip.completed",
                      {[trip_id |-> Some(AnyTrip), estimated_price_dkk |-> Some(AnyPrice)]})

\* -------------------------------------------------------------- driver store
\* a Driver whose available defaults to True
Driver_available(name) == [name |-> name, available |-> TRUE]

\* the Driver dataclass (store.py 6-10): available defaults to False
Driver(name) == [name |-> name, available |-> FALSE]

\* DriverStore.create: insert the row
DriverStore_create(ds, id, driver) ==
    [d \in DOMAIN ds \cup {id} |-> IF d = id THEN driver ELSE ds[d]]

Available(ds) == {d \in DOMAIN ds : ds[d].available}

\* pick_available without the filter on available
pick_any(ds) ==
    IF DOMAIN ds = {} THEN {None} ELSE {Some(d) : d \in DOMAIN ds}

\* DriverStore.pick_available: .filter(available == True).first() has no
\* ORDER BY, so any available row may come back; None when there is none
pick_available(ds) ==
    IF Available(ds) = {} THEN {None} ELSE {Some(d) : d \in Available(ds)}

\* DriverStore.set_available: KeyError when the row is missing
DriverStore_set_available_error(ds, driver_id) ==
    IF driver_id \in DOMAIN ds THEN "" ELSE "KeyError"
\* set_available that inserts the row it does not find
DriverStore_set_available_upsert(ds, driver_id, available) ==
    [d \in DOMAIN ds \cup {driver_id} |->
        IF d = driver_id
        THEN [name |-> IF d \in DOMAIN ds THEN ds[d].name ELSE "", available |-> available]
        ELSE ds[d]]

DriverStore_set_available(ds, driver_id, available) ==
    IF driver_id \in DOMAIN ds THEN [ds EXCEPT ![driver_id].available = available]
    ELSE ds

\* -------------------------------------------------------------- driver reactor
Idle == [pc |-> "idle", body |-> NoArg, driver |-> None, out |-> NoArg]

\* on_trip_requested without the test of trip_id
on_trip_requested_accepts_name_only(event) == event.name = "trip.requested"

\* on_trip_requested, lines 20-24: the event is one to react to
on_trip_requested_accepts(event) ==
    /\ event.name = "trip.requested"
    /\ Truthy(Get(event.payload, "trip_id"))

\* the assigned event carrying the id of the event for the id of the trip
assigned_event_id(event, driver_id) ==
    BaseEvent("driver.assigned", NanoId, Now, SERVICE_NAME["driver"],
              [trip_id |-> Some(event.id), driver_id |-> Some(driver_id)])

\* on_trip_requested, lines 32-38: the driver.assigned event
assigned(event, driver_id) ==
    BaseEvent("driver.assigned", NanoId, Now, SERVICE_NAME["driver"],
              [trip_id |-> Get(event.payload, "trip_id"), driver_id |-> Some(driver_id)])

Consumes(qs, q, svc, handler) ==
    \E c \in qs[q].consumers : c.svc = svc /\ c.handler = handler

FreeTask == CHOOSE k \in TaskIds : tasks[k].pc = "idle" /\ \A j \in TaskIds : tasks[j].pc = "idle" => k <= j

\* -------------------------------------------------------------- initial state
NoRows == [x \in {} |-> x]

\* the rule ids of the pricing service
RuleIds == {"rule1", "rule2"}

\* the clock of a process at its start, no event emitted yet
Epoch == [now |-> [second |-> 0, microsecond |-> 0], emitted |-> <<>>]

\* nothing published yet
NoLog == [ids |-> {}, routed |-> {}, delivered |-> NoRows, invoked |-> NoRows]

Init ==
    /\ bus = [s \in Services |-> RabbitBus]
    /\ queues = [q \in QueueNames |-> NoQueue]
    /\ drivers = NoRows
    /\ trips = NoRows
    /\ tasks = [k \in TaskIds |-> Idle]
    /\ pending = {}
    /\ picks = [d \in DriverIds |-> 0]
    /\ connected = {}
    /\ log = NoLog
    /\ clock = Epoch
    /\ redis = NoRows
    /\ cached = [id \in RuleIds |-> None]
    /\ last = [op |-> "init", arg |-> NoArg, err |-> "", sent |-> <<>>, ack |-> "",
               rep |-> 1]

\* the service is up: startup has completed and shutdown has not run
Running(s) == bus[s].channel = "open" /\ bus[s].exchange = "open"

\* -------------------------------------------------------------- driver service
\* startup (main.py 15-41): connect, then subscribe on_trip_requested; a
\* failed connect ends the process, the next one starts with a new RabbitBus
driver_startup ==
    /\ bus["driver"] = RabbitBus
    /\ \E o \in ConnectOutcomes :
        /\ bus' = [bus EXCEPT !["driver"] = IF o = "ok" THEN connect(@, o) ELSE @]
        /\ queues' = IF o = "ok"
                     THEN Subscribed(queues, "driver", "trip.requested",
                                     "driver.trip-requested", "on_trip_requested")
                     ELSE queues
        /\ last' = Last("startup", [svc |-> "driver"],
                        IF o = "ok" THEN "" ELSE "ConnectionError", <<>>, "")
        /\ connected' = IF o = "ok" THEN connected \cup {"driver"} ELSE connected
    /\ UNCHANGED <<drivers, trips, tasks, pending, picks, log, others>>

\* shutdown (main.py 43-45): bus.close()
driver_shutdown ==
    /\ Running("driver")
    /\ bus' = [bus EXCEPT !["driver"] = close(@)]
    /\ queues' = Cancelled(queues, "driver")
    /\ last' = Last("shutdown", [svc |-> "driver"], "", <<>>, "")
    /\ UNCHANGED <<drivers, trips, tasks, pending, picks, connected, log, others>>

\* POST /drivers (main.py 55-58): a new row with a fresh id, unavailable
create_driver ==
    /\ Running("driver")
    /\ \E id \in DriverIds \ DOMAIN drivers, name \in DriverNames :
        /\ drivers' = DriverStore_create(drivers, id, Driver(name))
        /\ last' = Last("create_driver", [id |-> id], "", <<>>, "")
    /\ UNCHANGED <<bus, queues, trips, tasks, pending, picks, connected, log, others>>

\* POST /drivers/{driver_id}/available (main.py 60-66): the store call
\* returns None, so a found driver ends in d.__dict__ on None
set_available(driver_id) ==
    /\ Running("driver")
    /\ drivers' = DriverStore_set_available(drivers, driver_id, TRUE)
    /\ picks' = IF driver_id \in DOMAIN drivers THEN [picks EXCEPT ![driver_id] = 0]
                ELSE picks
    /\ last' = Last("set_available", [id |-> driver_id],
                    IF DriverStore_set_available_error(drivers, driver_id) = "KeyError"
                    THEN "HTTPException 404" ELSE "AttributeError", <<>>, "")
    /\ UNCHANGED <<bus, queues, trips, tasks, pending, connected, log, others>>

\* _on_message around on_trip_requested, up to the await of bus.publish
\* (rabbit.py 47-51, main.py 19-38): decode, filter, pick a driver and mark
\* it unavailable with no await in between
trip_requested_message(body) ==
    /\ \E k \in TaskIds : tasks[k].pc = "idle"
    /\ IF ~Decodable(body)
       THEN /\ last' = Last("on_trip_requested", body, "TypeError", <<>>,
                        process("TypeError"))
            /\ UNCHANGED <<drivers, tasks, picks>>
       ELSE IF ~on_trip_requested_accepts(Decode(body))
       THEN /\ last' = Last("on_trip_requested", body, "", <<>>, "ack")
            /\ UNCHANGED <<drivers, tasks, picks>>
       ELSE \E r \in pick_available(drivers) :
            IF r = None
            THEN /\ last' = Last("on_trip_requested", body, "", <<>>, "ack")
                 /\ UNCHANGED <<drivers, tasks, picks>>
            ELSE /\ drivers' = DriverStore_set_available(drivers, r[1], FALSE)
                 /\ picks' = [picks EXCEPT ![r[1]] = @ + 1]
                 /\ tasks' = [tasks EXCEPT ![FreeTask] =
                        [pc |-> "publish", body |-> body, driver |-> r,
                         out |-> assigned(Decode(body), r[1])]]
                 /\ last' = Last("on_trip_requested", body, "", <<>>, "")

\* the message body arrives at the consumer of driver.trip-requested
trip_requested_delivery(body) ==
    /\ Consumes(queues, "driver.trip-requested", "driver", "on_trip_requested")
    /\ trip_requested_message(body)
    /\ UNCHANGED <<bus, queues, trips, pending, connected, log, others>>

receive_trip_requested == \E body \in DriverBodies : trip_requested_delivery(body)

\* await bus.publish(assigned) (main.py 39, rabbit.py 33-38), then the ack
\* of message.process; an error of publish rejects the message
publish_assigned(k) ==
    /\ tasks[k].pc = "publish"
    /\ LET err == publish_error(bus["driver"])
           msg == Message(tasks[k].out)
       IN /\ err = "" => HasRoom(queues, msg)
          /\ queues' = IF err = "" THEN Route(queues, msg) ELSE queues
          /\ last' = Last("on_trip_requested.publish", tasks[k].body, err,
                          IF err = "" THEN <<msg>> ELSE <<>>,
                          process(err))
    /\ tasks' = [tasks EXCEPT ![k] = Idle]
    /\ UNCHANGED <<bus, drivers, trips, pending, picks, connected, log, others>>

DriverNext ==
    \/ driver_startup
    \/ driver_shutdown
    \/ create_driver
    \/ \E d \in DriverIds : set_available(d)
    \/ receive_trip_requested
    \/ \E k \in TaskIds : publish_assigned(k)

SpecDriver == Init /\ [][DriverNext]_vars

\* -------------------------------------------------------------- trip store
\* json.dumps / json.loads of the pickup and dropoff columns
JsonDumps(v) == [json |-> v]
JsonLoads(text) == text.json

\* the Trip dataclass (store.py 7-16) with its defaults
Trip(id, rider_id, pickup, dropoff) ==
    [id |-> id, rider_id |-> rider_id, pickup |-> pickup, dropoff |-> dropoff,
     status |-> "REQUESTED", assigned_driver_id |-> None,
     estimated_price_dkk |-> None, final_price_dkk |-> None]

\* TripStore.create: the row keeps pickup and dropoff as JSON text
TripStore_create(ts, trip) ==
    [t \in DOMAIN ts \cup {trip.id} |->
        IF t = trip.id
        THEN [trip EXCEPT !.pickup = JsonDumps(@), !.dropoff = JsonDumps(@)]
        ELSE ts[t]]

\* TripStore.get: the row as a Trip, None when missing
TripStore_get(ts, trip_id) ==
    IF trip_id \in DOMAIN ts
    THEN Some([ts[trip_id] EXCEPT !.pickup = JsonLoads(@), !.dropoff = JsonLoads(@)])
    ELSE None

\* the three mutations raise KeyError("Trip not found") on a missing row
TripStore_error(ts, trip_id) == IF trip_id \in DOMAIN ts THEN "" ELSE "KeyError"

\* assign_driver that moves the status one step on instead of setting it
assign_driver_advance(ts, trip_id, driver_id) ==
    IF trip_id \in DOMAIN ts
    THEN [ts EXCEPT ![trip_id].status = IF @ = "REQUESTED" THEN "ASSIGNED"
                                        ELSE "COMPLETED",
                    ![trip_id].assigned_driver_id = Some(driver_id)]
    ELSE ts

\* assign_driver that sets the status and forgets the driver
assign_driver_status_only(ts, trip_id, driver_id) ==
    IF trip_id \in DOMAIN ts
    THEN [ts EXCEPT ![trip_id].status = "ASSIGNED"]
    ELSE ts

TripStore_assign_driver(ts, trip_id, driver_id) ==
    IF trip_id \in DOMAIN ts
    THEN [ts EXCEPT ![trip_id].status = "ASSIGNED",
                    ![trip_id].assigned_driver_id = Some(driver_id)]
    ELSE ts

\* set_estimate that writes the status column too
set_estimate_requested(ts, trip_id, estimated) ==
    IF trip_id \in DOMAIN ts
    THEN [ts EXCEPT ![trip_id].estimated_price_dkk = Some(estimated),
                    ![trip_id].status = "REQUESTED"]
    ELSE ts

\* set_estimate that inserts a row for a trip it does not find
set_estimate_upsert(ts, trip_id, estimated) ==
    [t \in DOMAIN ts \cup {trip_id} |->
        IF t = trip_id
        THEN [(IF t \in DOMAIN ts THEN ts[t]
               ELSE Trip(t, "", JsonDumps(None), JsonDumps(None)))
              EXCEPT !.estimated_price_dkk = Some(estimated)]
        ELSE ts[t]]

TripStore_set_estimate(ts, trip_id, estimated) ==
    IF trip_id \in DOMAIN ts
    THEN [ts EXCEPT ![trip_id].estimated_price_dkk = Some(estimated)]
    ELSE ts

TripStore_complete(ts, trip_id, final_price) ==
    IF trip_id \in DOMAIN ts
    THEN [ts EXCEPT ![trip_id].status = "COMPLETED",
                    ![trip_id].final_price_dkk = Some(final_price)]
    ELSE ts

\* -------------------------------------------------------------- trip reactor
\* a handler with no except clause
Caught_nothing(err) == err

\* the exceptions a handler catches: except KeyError: return
Caught(err) == IF err = "KeyError" THEN "" ELSE err

\* on_driver_assigned without the test of the name
on_driver_assigned_accepts_any_name(event) ==
    /\ Truthy(Get(event.payload, "trip_id"))
    /\ Truthy(Get(event.payload, "driver_id"))

\* on_driver_assigned, lines 20-25
on_driver_assigned_accepts(event) ==
    /\ event.name = "driver.assigned"
    /\ Truthy(Get(event.payload, "trip_id"))
    /\ Truthy(Get(event.payload, "driver_id"))

\* on_driver_assigned: the trip store after the handler, and the exception
\* that leaves the handler ("" when it returns)
on_driver_assigned(ts, event) ==
    IF on_driver_assigned_accepts(event)
    THEN TripStore_assign_driver(ts, event.payload["trip_id"][1],
                                 event.payload["driver_id"][1])
    ELSE ts
on_driver_assigned_error(ts, event) ==
    IF on_driver_assigned_accepts(event)
    THEN Caught(TripStore_error(ts, event.payload["trip_id"][1]))
    ELSE ""

\* the price tested with "not est": a price of 0 counts as missing
on_pricing_quoted_accepts_truthy(event) ==
    /\ event.name = "pricing.quoted"
    /\ Truthy(Get(event.payload, "trip_id"))
    /\ Get(event.payload, "estimated_price_dkk") \notin {None, Some(0)}

\* on_pricing_quoted, lines 32-37: the price is tested with "is None"
on_pricing_quoted_accepts(event) ==
    /\ event.name = "pricing.quoted"
    /\ Truthy(Get(event.payload, "trip_id"))
    /\ Get(event.payload, "estimated_price_dkk") # None

on_pricing_quoted(ts, event) ==
    IF on_pricing_quoted_accepts(event)
    THEN TripStore_set_estimate(ts, event.payload["trip_id"][1],
                                Float(event.payload["estimated_price_dkk"][1]))
    ELSE ts
on_pricing_quoted_error(ts, event) ==
    IF on_pricing_quoted_accepts(event)
    THEN Caught(TripStore_error(ts, event.payload["trip_id"][1]))
    ELSE ""

\* -------------------------------------------------------------- trip service
\* startup (main.py 15-44): connect, then subscribe both handlers
trip_startup ==
    /\ bus["trip"] = RabbitBus
    /\ \E o \in ConnectOutcomes :
        /\ bus' = [bus EXCEPT !["trip"] = IF o = "ok" THEN connect(@, o) ELSE @]
        /\ queues' = IF o = "ok"
                     THEN Subscribed(
                            Subscribed(queues, "trip", "driver.assigned",
                                       "trip.driver-assigned", "on_driver_assigned"),
                            "trip", "pricing.quoted", "trip.pricing-quoted",
                            "on_pricing_quoted")
                     ELSE queues
        /\ last' = Last("startup", [svc |-> "trip"],
                        IF o = "ok" THEN "" ELSE "ConnectionError", <<>>, "")
        /\ connected' = IF o = "ok" THEN connected \cup {"trip"} ELSE connected
    /\ UNCHANGED <<drivers, trips, tasks, pending, picks, log, others>>

\* shutdown (main.py 46-48): bus.close()
trip_shutdown ==
    /\ Running("trip")
    /\ bus' = [bus EXCEPT !["trip"] = close(@)]
    /\ queues' = Cancelled(queues, "trip")
    /\ last' = Last("shutdown", [svc |-> "trip"], "", <<>>, "")
    /\ UNCHANGED <<drivers, trips, tasks, pending, picks, connected, log, others>>

\* a trip.requested event that names the trip and the rider only
requested_ids_only(trip) ==
    BaseEvent("trip.requested", NanoId, Now, SERVICE_NAME["trip"],
              [trip_id |-> Some(trip.id), rider_id |-> Some(trip.rider_id)])

\* the trip.requested event of create_trip (main.py 75-86)
requested(trip) ==
    BaseEvent("trip.requested", NanoId, Now, SERVICE_NAME["trip"],
              [trip_id |-> Some(trip.id), rider_id |-> Some(trip.rider_id),
               pickup |-> Some(trip.pickup), dropoff |-> Some(trip.dropoff)])

\* POST /trips up to the await of bus.publish (main.py 66-86): a new row
\* with a fresh id; the event is built from the Trip that create returns
create_trip ==
    /\ Running("trip")
    /\ Cardinality(pending) < MaxPending
    /\ \E id \in TripIds \ DOMAIN trips, rider \in RiderIds,
          pickup \in Places, dropoff \in Places :
        /\ trips' = TripStore_create(trips, Trip(id, rider, pickup, dropoff))
        /\ pending' = pending \cup {requested(TripStore_get(trips', id)[1])}
        /\ last' = Last("create_trip", [id |-> id], "", <<>>, "")
    /\ UNCHANGED <<bus, queues, drivers, tasks, picks, connected, log, others>>

\* await bus.publish(event) of create_trip (main.py 87-88)
publish_requested(event) ==
    /\ event \in pending
    /\ LET err == publish_error(bus["trip"])
           msg == Message(event)
       IN /\ err = "" => HasRoom(queues, msg)
          /\ queues' = IF err = "" THEN Route(queues, msg) ELSE queues
          /\ last' = Last("create_trip.publish", [id |-> event.payload["trip_id"][1]],
                          err, IF err = "" THEN <<msg>> ELSE <<>>, "")
    /\ pending' = pending \ {event}
    /\ UNCHANGED <<bus, drivers, trips, tasks, picks, connected, log, others>>

\* _on_message around on_driver_assigned (rabbit.py 47-51, main.py 19-29)
driver_assigned_message(body) ==
    IF ~Decodable(body)
    THEN /\ last' = Last("on_driver_assigned", body, "TypeError", <<>>,
                        process("TypeError"))
         /\ UNCHANGED trips
    ELSE LET err == on_driver_assigned_error(trips, Decode(body))
         IN /\ trips' = on_driver_assigned(trips, Decode(body))
            /\ last' = Last("on_driver_assigned", body, err, <<>>,
                            process(err))

\* _on_message around on_pricing_quoted (rabbit.py 47-51, main.py 31-41)
pricing_quoted_message(body) ==
    IF ~Decodable(body)
    THEN /\ last' = Last("on_pricing_quoted", body, "TypeError", <<>>,
                        process("TypeError"))
         /\ UNCHANGED trips
    ELSE LET err == on_pricing_quoted_error(trips, Decode(body))
         IN /\ trips' = on_pricing_quoted(trips, Decode(body))
            /\ last' = Last("on_pricing_quoted", body, err, <<>>,
                            process(err))

\* the message body arrives at the consumer of trip.driver-assigned
driver_assigned_delivery(body) ==
    /\ Consumes(queues, "trip.driver-assigned", "trip", "on_driver_assigned")
    /\ driver_assigned_message(body)
    /\ UNCHANGED <<bus, queues, drivers, tasks, pending, picks, connected, log, others>>

receive_driver_assigned == \E body \in DriverAssignedBodies : driver_assigned_delivery(body)

\* the message body arrives at the consumer of trip.pricing-quoted
pricing_quoted_delivery(body) ==
    /\ Consumes(queues, "trip.pricing-quoted", "trip", "on_pricing_quoted")
    /\ pricing_quoted_message(body)
    /\ UNCHANGED <<bus, queues, drivers, tasks, pending, picks, connected, log, others>>

receive_pricing_quoted == \E body \in PricingQuotedBodies : pricing_quoted_delivery(body)

TripNext ==
    \/ trip_startup
    \/ trip_shutdown
    \/ create_trip
    \/ \E event \in pending : publish_requested(event)
    \/ receive_driver_assigned
    \/ receive_pricing_quoted

SpecTrip == Init /\ [][TripNext]_vars

\* ------------------------------------------- driver store under concurrent handlers
\* Handlers of several consumers of the same store (instances of the
\* service on one database, or one thread per subscription): every store
\* call is its own session and transaction (store.py 37, 41), so the calls
\* of different handlers interleave between pick_available and set_available.

\* main.py 20-28: decode, filter, store.pick_available()
store_pick(k) ==
    /\ Consumes(queues, "driver.trip-requested", "driver", "on_trip_requested")
    /\ tasks[k].pc = "idle"
    /\ \E body \in DriverBodies :
        IF ~Decodable(body)
        THEN /\ last' = Last("on_trip_requested", body, "TypeError", <<>>,
                        process("TypeError"))
             /\ UNCHANGED <<tasks, picks>>
        ELSE IF ~on_trip_requested_accepts(Decode(body))
        THEN /\ last' = Last("on_trip_requested", body, "", <<>>, "ack")
             /\ UNCHANGED <<tasks, picks>>
        ELSE \E r \in pick_available(drivers) :
             IF r = None
             THEN /\ last' = Last("on_trip_requested", body, "", <<>>, "ack")
                  /\ UNCHANGED <<tasks, picks>>
             ELSE /\ picks' = [picks EXCEPT ![r[1]] = @ + 1]
                  /\ tasks' = [tasks EXCEPT ![k] =
                         [pc |-> "picked", body |-> body, driver |-> r,
                          out |-> assigned(Decode(body), r[1])]]
                  /\ last' = Last("pick_available", body, "", <<>>, "")
    /\ UNCHANGED <<bus, queues, drivers, trips, pending, connected, log, others>>

\* main.py 30: store.set_available(driver.id, False)
store_set(k) ==
    /\ tasks[k].pc = "picked"
    /\ drivers' = DriverStore_set_available(drivers, tasks[k].driver[1], FALSE)
    /\ tasks' = [tasks EXCEPT ![k].pc = "publish"]
    /\ last' = Last("set_available(False)", tasks[k].body, "", <<>>, "")
    /\ UNCHANGED <<bus, queues, trips, pending, picks, connected, log, others>>

ConcNext ==
    \/ driver_startup
    \/ create_driver
    \/ \E d \in DriverIds : set_available(d)
    \/ \E k \in TaskIds : store_pick(k)
    \/ \E k \in TaskIds : store_set(k)
    \/ \E k \in TaskIds : publish_assigned(k)

SpecConc == Init /\ [][ConcNext]_vars

\* -------------------------------------------------------------- either service
\* One service process, the driver service or the trip service (they share
\* no store and no memory), whose consumers are also handed bodies that are
\* no envelope.  The trip handlers are observed between the requests of
\* create_trip, not while one is suspended at its publish.

\* an event the handler would act on, with one envelope field missing
Malformed(name, payload) ==
    {Without(Encode(BaseEvent(name, NanoId, Now, "publisher", payload)), f) :
        f \in EnvelopeFields}

MalformedTripRequested == Malformed("trip.requested", [trip_id |-> Some(AnyTrip)])
MalformedDriverAssigned ==
    Malformed("driver.assigned", [trip_id |-> Some(AnyTrip), driver_id |-> Some(AnyDriver)])
MalformedPricingQuoted ==
    Malformed("pricing.quoted",
              [trip_id |-> Some(AnyTrip), estimated_price_dkk |-> Some(AnyPrice)])

DriverServiceNext ==
    \/ driver_startup
    \/ create_driver
    \/ \E d \in DriverIds : set_available(d)
    \/ \E body \in DriverBodies \cup MalformedTripRequested : trip_requested_delivery(body)
    \/ \E k \in TaskIds : publish_assigned(k)

TripServiceNext ==
    \/ trip_startup
    \/ create_trip
    \/ \E event \in pending : publish_requested(event)
    \/ \E body \in DriverAssignedBodies \cup MalformedDriverAssigned :
          pending = {} /\ driver_assigned_delivery(body)
    \/ \E body \in PricingQuotedBodies \cup MalformedPricingQuoted :
          pending = {} /\ pricing_quoted_delivery(body)

ServiceNext ==
    \/ "trip" \notin connected /\ DriverServiceNext
    \/ "driver" \notin connected /\ TripServiceNext

SpecService == Init /\ [][ServiceNext]_vars

\* -------------------------------------------------------------- RabbitBus in use
\* The operations of one RabbitBus called in any order, with any handler.
BusNames == {"trip.requested", "driver.assigned"}
BusQueues == {"driver.trip-requested", "trip.driver-assigned"}
BusEvents(s, id) ==
    {BaseEvent(n, id, Now, SERVICE_NAME[s], [trip_id |-> Some("t1")]) : n \in BusNames}

\* the calls of aio_pika.connect_robust that one connect() makes: line 21 is
\* in no loop and nothing catches its exception
ConnectCalls == 1

\* await bus.connect(), on a bus whose channel is not open (the services
\* connect once, at startup)
bus_connect(s) ==
    /\ bus[s].channel # "open"
    /\ \E o \in ConnectOutcomes :
        /\ bus' = [bus EXCEPT ![s] = connect(@, o)]
        /\ connected' = IF o = "ok" THEN connected \cup {s} ELSE connected
        /\ last' = Last("connect", [svc |-> s, outcome |-> o, calls |-> ConnectCalls],
                        IF o = "ok" THEN "" ELSE "ConnectionError", <<>>, "")
    /\ UNCHANGED <<queues, drivers, trips, tasks, pending, picks, log, others>>

\* await bus.close()
bus_close(s) ==
    /\ bus' = [bus EXCEPT ![s] = close(@)]
    /\ queues' = IF bus[s].channel = "open" THEN Cancelled(queues, s) ELSE queues
    /\ last' = Last("close", [svc |-> s], "", <<>>, "")
    /\ UNCHANGED <<drivers, trips, tasks, pending, picks, connected, log, others>>

\* await bus.publish(event)
bus_publish(s, event) ==
    /\ LET err == publish_error(bus[s])
           msg == Message(event)
       IN /\ err = "" => HasRoom(queues, msg)
          /\ queues' = IF err = "" THEN Route(queues, msg) ELSE queues
          /\ last' = Last("publish", [svc |-> s, name |-> event.name], err,
                          IF err = "" THEN <<msg>> ELSE <<>>, "")
    /\ UNCHANGED <<bus, drivers, trips, tasks, pending, picks, connected, others>>

\* await bus.subscribe(event_name, queue_name, dummy_handler)
bus_subscribe(s, event_name, queue_name) ==
    /\ LET err == subscribe_error(bus[s])
       IN /\ queues' = IF err = ""
                       THEN Subscribed(queues, s, event_name, queue_name, "dummy_handler")
                       ELSE queues
          /\ last' = Last("subscribe",
                          [svc |-> s, name |-> event_name, queue |-> queue_name],
                          err, <<>>, "")
    /\ UNCHANGED <<bus, drivers, trips, tasks, pending, picks, connected, log, others>>

\* _on_message (rabbit.py 47-51) for a message of a queue with a consumer:
\* decode, await the handler, which returns or raises; message.process
\* acknowledges on return and rejects without requeue on an exception
bus_deliver(q) ==
    /\ queues[q].msgs # <<>>
    /\ \E c \in queues[q].consumers, raises \in BOOLEAN :
        LET body == Head(queues[q].msgs)
            err == IF ~Decodable(body) THEN "TypeError"
                   ELSE IF raises THEN "Exception" ELSE ""
        IN /\ queues' = [queues EXCEPT ![q].msgs = Settled(@, err)]
           /\ last' = Last("deliver",
                           [svc |-> c.svc, queue |-> q, body |-> body, name |-> c.name],
                           err, <<>>, process(err))
    /\ UNCHANGED <<bus, drivers, trips, tasks, pending, picks, connected, others>>

\* publish and deliver leave the record of deliveries to their caller
BusNext ==
    \/ bus_connect("trip")
    \/ bus_close("trip")
    \/ \E event \in BusEvents("trip", NanoId) : bus_publish("trip", event) /\ UNCHANGED log
    \/ \E n \in BusNames, q \in BusQueues : bus_subscribe("trip", n, q)
    \/ \E q \in BusQueues : bus_deliver(q) /\ UNCHANGED log

SpecBus == Init /\ [][BusNext]_vars

\* -------------------------------------------------------------- deliveries
\* The bus with every event told apart by its id, and a record (log) of what
\* the exchange routed and what the consumers were handed.
MaxEvents == 2

\* generate(size=12): a token that no event made before carries
EventIds == {"id" \o ToString(i) : i \in 1..MaxEvents}
FreshId(used) == "id" \o ToString(Cardinality(used) + 1)

\* bodies of a producer that is not a RabbitBus: an envelope field is missing
ForeignBodies(id) == {Without(Encode(e), "payload") : e \in BusEvents("trip", id)}

\* the messages the exchange has taken and the queues it has put them in
Accepted(lg, qs, msg) ==
    [lg EXCEPT !.ids = @ \cup {msg.body["id"]},
               !.routed = @ \cup {<<q, msg.body>> : q \in Routed(qs, msg)}]

\* one more in the count c of key
Counted(c, key) ==
    [x \in DOMAIN c \cup {key} |-> IF x \in DOMAIN c
                                    THEN (IF x = key THEN c[x] + 1 ELSE c[x])
                                    ELSE 1]

\* the head of queue q is handed to _on_message, which hands the decoded
\* event to the handler
Delivered(lg, q, body) ==
    [lg EXCEPT !.delivered = Counted(@, <<q, body>>),
               !.invoked = IF Decodable(body) THEN Counted(@, <<q, body>>) ELSE @]

\* await bus.publish(event) of an event made with a fresh id
publish_fresh(s, event) ==
    /\ Cardinality(log.ids) < MaxEvents
    /\ bus_publish(s, event)
    /\ log' = IF publish_error(bus[s]) = "" THEN Accepted(log, queues, Message(event))
              ELSE log

\* another producer publishes a body with a fresh id to the exchange
foreign_publish(body) ==
    /\ Cardinality(log.ids) < MaxEvents
    /\ LET msg == [rk |-> body["name"], body |-> body]
       IN /\ HasRoom(queues, msg)
          /\ queues' = Route(queues, msg)
          /\ log' = Accepted(log, queues, msg)
          /\ last' = Last("foreign_publish", [name |-> msg.rk], "", <<msg>>, "")
    /\ UNCHANGED <<bus, drivers, trips, tasks, pending, picks, connected, others>>

\* the subscriptions made: both queues take trip.requested, none takes
\* driver.assigned
DeliverySubscriptions ==
    {<<"trip.requested", "driver.trip-requested">>,
     <<"trip.requested", "trip.driver-assigned">>}

deliver_logged(q) ==
    /\ bus_deliver(q)
    /\ log' = Delivered(log, q, Head(queues[q].msgs))

DeliveryNext ==
    \/ bus_connect("trip")
    \/ bus_close("trip")
    \/ \E event \in BusEvents("trip", FreshId(log.ids)) : publish_fresh("trip", event)
    \/ \E body \in ForeignBodies(FreshId(log.ids)) : foreign_publish(body)
    \/ \E sub \in DeliverySubscriptions : bus_subscribe("trip", sub[1], sub[2])
    \/ \E q \in BusQueues : deliver_logged(q)

SpecDelivery == Init /\ [][DeliveryNext]_vars

\* a consumer is handed the head of its queue as soon as there is one
SpecDeliveryFair == SpecDelivery /\ \A q \in BusQueues : WF_vars(deliver_logged(q))

\* -------------------------------------------------------------- the JSON codec
\* publish and _on_message on Python values.  A Python value is a record
\* [t, <t>]: its type and, under the name of the type, its content.  A JSON
\* text is its syntax tree [j, <j>].  A number literal keeps whether it is
\* written with a fraction ("99.0") or not ("42").
MaxItems == 1

\* the Python value of type type with content x; None has no content
Py(type, x) == ("t" :> type) @@ (type :> x)
PyNone == [t |-> "NoneType"]
PyStr(x) == Py("str", x)
PyDict(d) == Py("dict", d)

PyAtoms ==
    {PyStr("value"), PyStr(""), Py("int", 42), Py("float", 99), Py("bool", TRUE), Py("bool", FALSE),
     PyNone}

\* the dicts with keys among keys and values among values
Dicts(keys, values) == UNION {[ks -> values] : ks \in SUBSET keys}

\* JSON values: atoms, lists of atoms, dicts of atoms
PyValues ==
    PyAtoms
        \cup {Py("list", l) : l \in UNION {[1..n -> PyAtoms] : n \in 0..MaxItems}}
        \cup {PyDict(d) : d \in Dicts({"k" \o ToString(i) : i \in 1..MaxItems}, PyAtoms)}

\* events with payloads of every shape, the fields of test_event_payload_types
CodecEvents ==
    {BaseEvent(PyStr("test.event"), PyStr("test0"), PyStr(Now), PyStr("test-service"),
               PyDict(d)) : d \in Dicts({"string", "nested"}, PyValues)}

\* a dumps that leaves out the keys holding None
dict_items_skip_none(d) == {key \in DOMAIN d : d[key].t # "NoneType"}

\* the keys json.dumps writes for a dict: all of them
dict_items(d) == DOMAIN d

\* json.dumps(x)
RECURSIVE json_dumps(_)
json_dumps(x) ==
    CASE x.t = "str" -> [j |-> "string", string |-> x.str]
      [] x.t = "int" -> [j |-> "number", number |-> [digits |-> x.int, fraction |-> FALSE]]
      [] x.t = "float" -> [j |-> "number", number |-> [digits |-> x.float, fraction |-> TRUE]]
      [] x.t = "bool" -> [j |-> IF x.bool THEN "true" ELSE "false"]
      [] x.t = "NoneType" -> [j |-> "null"]
      [] x.t = "list" ->
            [j |-> "array", array |-> [i \in DOMAIN x.list |-> json_dumps(x.list[i])]]
      [] x.t = "dict" ->
            [j |-> "object",
             object |-> [key \in dict_items(x.dict) |-> json_dumps(x.dict[key])]]

\* json.loads(text)
RECURSIVE json_loads(_)
json_loads(text) ==
    CASE text.j = "string" -> PyStr(text.string)
      [] text.j = "number" ->
            Py(IF text.number.fraction THEN "float" ELSE "int", text.number.digits)
      [] text.j = "true" -> Py("bool", TRUE)
      [] text.j = "false" -> Py("bool", FALSE)
      [] text.j = "null" -> PyNone
      [] text.j = "array" ->
            Py("list", [i \in DOMAIN text.array |-> json_loads(text.array[i])])
      [] text.j = "object" ->
            PyDict([key \in DOMAIN text.object |-> json_loads(text.object[key])])

\* publish, line 36: body = json.dumps(event.__dict__).encode("utf-8")
publish_body(event) == json_dumps(PyDict(Encode(event)))

\* _on_message, lines 49-50: BaseEvent(**json.loads(message.body.decode("utf-8")))
on_message_event(body) == Decode(json_loads(body).dict)

InitCodec ==
    /\ bus = [s \in Services |-> RabbitBus]
    /\ queues = [q \in QueueNames |-> NoQueue]
    /\ drivers = NoRows
    /\ trips = NoRows
    /\ tasks = [k \in TaskIds |-> Idle]
    /\ pending = {}
    /\ picks = [d \in DriverIds |-> 0]
    /\ connected = {}
    /\ log = NoLog
    /\ clock = Epoch
    /\ redis = NoRows
    /\ cached = [id \in RuleIds |-> None]
    /\ \E event \in CodecEvents :
          last = [op |-> "event", arg |-> event, err |-> "", sent |-> <<>>, ack |-> "",
                  rep |-> 1]

\* publish builds the body of the event
codec_publish ==
    /\ last.op = "event"
    /\ last' = [last EXCEPT !.op = "body", !.sent = <<publish_body(last.arg)>>]
    /\ UNCHANGED <<bus, queues, drivers, trips, tasks, pending, picks, connected, log, others>>

\* _on_message decodes the body
codec_receive ==
    /\ last.op = "body"
    /\ Decodable(json_loads(last.sent[1]).dict)
    /\ last' = [op |-> "decoded", arg |-> last.arg, err |-> "", sent |-> last.sent,
                ack |-> "", rep |-> 1, event |-> on_message_event(last.sent[1])]
    /\ UNCHANGED <<bus, queues, drivers, trips, tasks, pending, picks, connected, log, others>>

CodecNext == codec_publish \/ codec_receive

SpecCodec == InitCodec /\ [][CodecNext]_vars

\* ------------------------------------------------ both services on one broker
\* The two services run against the same exchange: what create_trip
\* publishes is queued for on_trip_requested, and what on_trip_requested
\* publishes is queued for on_driver_assigned.  Neither service shuts down.

\* the trip.requested events published or about to be, and not yet handled
Outstanding == Cardinality(pending) + Len(queues["driver.trip-requested"].msgs)

\* POST /drivers/{driver_id}/available for a driver not yet made available
make_available(d) ==
    /\ d \in DOMAIN drivers
    /\ ~drivers[d].available
    /\ picks[d] = 0
    /\ set_available(d)

\* POST /trips while both services are subscribed and a driver is available
\* for every request under way
request_trip ==
    /\ Running("driver")
    /\ Cardinality(Available(drivers)) > Outstanding
    /\ create_trip

\* the consumer of driver.trip-requested takes the head of its queue
take_trip_requested ==
    /\ Consumes(queues, "driver.trip-requested", "driver", "on_trip_requested")
    /\ queues["driver.trip-requested"].msgs # <<>>
    /\ trip_requested_message(Head(queues["driver.trip-requested"].msgs))
    /\ queues' = [queues EXCEPT !["driver.trip-requested"].msgs = Tail(@)]
    /\ UNCHANGED <<bus, trips, pending, connected, log, others>>

\* the consumer of trip.driver-assigned takes the head of its queue
take_driver_assigned ==
    /\ Consumes(queues, "trip.driver-assigned", "trip", "on_driver_assigned")
    /\ queues["trip.driver-assigned"].msgs # <<>>
    /\ driver_assigned_message(Head(queues["trip.driver-assigned"].msgs))
    /\ queues' = [queues EXCEPT !["trip.driver-assigned"].msgs = Tail(@)]
    /\ UNCHANGED <<bus, drivers, tasks, pending, picks, connected, log, others>>

FlowNext ==
    \/ driver_startup
    \/ trip_startup
    \/ create_driver
    \/ \E d \in DriverIds : make_available(d)
    \/ request_trip
    \/ \E event \in pending : publish_requested(event)
    \/ take_trip_requested
    \/ \E k \in TaskIds : publish_assigned(k)
    \/ take_driver_assigned

SpecFlow == Init /\ [][FlowNext]_vars

\* the event loop resumes every awaited publish and the broker delivers the
\* head of every queue that has a consumer
SpecFlowFair ==
    /\ SpecFlow
    /\ WF_vars(\E event \in pending : publish_requested(event))
    /\ WF_vars(take_trip_requested)
    /\ \A k \in TaskIds : WF_vars(publish_assigned(k))
    /\ WF_vars(take_driver_assigned)

\* ------------------------------------------------ the trip store completed
\* Either service alone, and with the trip service the callers of
\* TripStore.complete.  The trip service is delivered the events a driver
\* service and a pricing service emit for any trip id, created or not.

\* store.complete(trip_id, final_price) (store.py 98-105)
complete(trip_id, final_price) ==
    /\ trips' = TripStore_complete(trips, trip_id, Float(final_price))
    /\ last' = Last("complete", [id |-> trip_id], TripStore_error(trips, trip_id),
                    <<>>, "")
    /\ UNCHANGED <<bus, queues, drivers, tasks, pending, picks, connected, log, others>>

TripLifeNext ==
    \/ "trip" \notin connected /\ DriverServiceNext
    \/ "driver" \notin connected /\ trip_startup
    \/ "driver" \notin connected /\ create_trip
    \/ \E event \in pending : publish_requested(event)
    \/ \E body \in Received("driver.assigned",
                            {[trip_id |-> Some(t), driver_id |-> Some(AnyDriver)] :
                                t \in TripIds}) :
          pending = {} /\ driver_assigned_delivery(body)
    \/ \E body \in Received("pricing.quoted",
                            {[trip_id |-> Some(t), estimated_price_dkk |-> Some(AnyPrice)] :
                                t \in TripIds}) :
          pending = {} /\ pricing_quoted_delivery(body)
    \/ \E t \in TripIds :
          "driver" \notin connected /\ pending = {} /\ complete(t, AnyPrice)

SpecTripLife == Init /\ [][TripLifeNext]_vars

\* -------------------------------------------------------------- now_iso
\* One process reading its clock.  A str is the sequence of its code points.
MaxSecond == 2
MaxEmitted == 2

\* the readings of datetime.utcnow() within one minute: the second, and a
\* microsecond at the start, just after the start and at the end of it
Readings == [second : 0..MaxSecond, microsecond : {0, 1, 999999}]

\* n written with width digits
Digits(n, width) == [i \in 1..width |-> 48 + ((n \div (10 ^ (width - i))) % 10)]

\* "2025-12-29T10:00:", the part of the text every reading shares
MinutePrefix ==
    <<50, 48, 50, 53, 45, 49, 50, 45, 50, 57, 84, 49, 48, 58, 48, 48, 58>>

\* datetime.isoformat(): the fraction is written only when microsecond # 0
isoformat(dt) ==
    MinutePrefix \o Digits(dt.second, 2)
        \o (IF dt.microsecond = 0 THEN <<>> ELSE <<46>> \o Digits(dt.microsecond, 6))

\* now_iso() (types.py 23-24) at the reading dt
now_iso(dt) == isoformat(dt) \o <<90>>

\* a < b on two str: the first code point that differs decides, and a
\* proper prefix is smaller
StrLess(a, b) ==
    \/ \E i \in 1..Len(a) :
        /\ i <= Len(b)
        /\ a[i] < b[i]
        /\ \A j \in 1..(i - 1) : a[j] = b[j]
    \/ /\ Len(a) < Len(b)
       /\ \A j \in 1..Len(a) : a[j] = b[j]

\* time passes: the clock comes to read a later time
tick ==
    /\ \E dt \in Readings :
        /\ \/ dt.second > clock.now.second
           \/ dt.second = clock.now.second /\ dt.microsecond > clock.now.microsecond
        /\ clock' = [clock EXCEPT !.now = dt]
        /\ last' = Last("tick", dt, "", <<>>, "")
    /\ UNCHANGED <<bus, queues, drivers, trips, tasks, pending, picks, connected, log,
                   redis, cached>>

\* an event is built with ts=now_iso() (trip main.py 78, driver main.py 35)
emit ==
    /\ Len(clock.emitted) < MaxEmitted
    /\ clock' = [clock EXCEPT !.emitted = Append(@, now_iso(clock.now))]
    /\ last' = Last("emit", clock.now, "", <<>>, "")
    /\ UNCHANGED <<bus, queues, drivers, trips, tasks, pending, picks, connected, log,
                   redis, cached>>

ClockNext == tick \/ emit

SpecClock == Init /\ [][ClockNext]_vars

\* -------------------------------------------------------------- pricing cache
\* cache_pricing_rule, get_cached_pricing_rule and invalidate_pricing_cache
\* (pricing database.py 50-80) on a Redis that is reachable and in which
\* no key expires.  The text of a value is its syntax tree [r, <r>].
DefaultTtl == 3600

\* rule data as the tests cache it: a dict of some columns of a pricing rule
RuleData ==
    {PyDict(d) : d \in Dicts({"name", "base_fare"},
                             {PyStr("Standard Fare"), Py("float", 50)})}

\* str(rule_data): the repr of the dict and of what it holds
RECURSIVE repr(_)
repr(x) ==
    CASE x.t = "str" -> [r |-> "quoted", quoted |-> x.str]
      [] x.t = "int" -> [r |-> "number", number |-> [digits |-> x.int, point |-> FALSE]]
      [] x.t = "float" -> [r |-> "number", number |-> [digits |-> x.float, point |-> TRUE]]
      [] x.t = "bool" -> [r |-> IF x.bool THEN "True" ELSE "False"]
      [] x.t = "NoneType" -> [r |-> "None"]
      [] x.t = "list" ->
            [r |-> "brackets", brackets |-> [i \in DOMAIN x.list |-> repr(x.list[i])]]
      [] x.t = "dict" ->
            [r |-> "braces", braces |-> [key \in DOMAIN x.dict |-> repr(x.dict[key])]]

\* eval(cached_data) of a text made of literals
RECURSIVE eval(_)
eval(text) ==
    CASE text.r = "quoted" -> PyStr(text.quoted)
      [] text.r = "number" ->
            Py(IF text.number.point THEN "float" ELSE "int", text.number.digits)
      [] text.r = "True" -> Py("bool", TRUE)
      [] text.r = "False" -> Py("bool", FALSE)
      [] text.r = "None" -> PyNone
      [] text.r = "brackets" ->
            Py("list", [i \in DOMAIN text.brackets |-> eval(text.brackets[i])])
      [] text.r = "braces" ->
            PyDict([key \in DOMAIN text.braces |-> eval(text.braces[key])])

\* a key that leaves the rule id out
pricing_rule_key_shared(rule_id) == <<"pricing_rule:", "">>

\* key = f"pricing_rule:{rule_id}"
pricing_rule_key(rule_id) == <<"pricing_rule:", rule_id>>

\* redis_conn.setex(key, ttl_seconds, value), .get(key) and .delete(key)
setex(r, key, ttl_seconds, value) ==
    [k \in DOMAIN r \cup {key} |->
        IF k = key THEN [value |-> value, ttl |-> ttl_seconds] ELSE r[k]]
redis_get(r, key) == IF key \in DOMAIN r THEN Some(r[key].value) ELSE None
redis_delete(r, key) == [k \in DOMAIN r \ {key} |-> r[k]]

\* get_cached_pricing_rule(rule_id): the dict, or None on a miss
get_cached_pricing_rule(r, rule_id) ==
    LET cached_data == redis_get(r, pricing_rule_key(rule_id))
    IN IF cached_data # None THEN Some(eval(cached_data[1])) ELSE None

\* cache_pricing_rule(rule_id, rule_data) with the default ttl_seconds
cache_pricing_rule(rule_id, rule_data) ==
    /\ redis' = setex(redis, pricing_rule_key(rule_id), DefaultTtl, repr(rule_data))
    /\ cached' = [cached EXCEPT ![rule_id] = Some(rule_data)]
    /\ last' = Last("cache_pricing_rule", [id |-> rule_id], "", <<>>, "")
    /\ UNCHANGED <<bus, queues, drivers, trips, tasks, pending, picks, connected, log,
                   clock>>

\* invalidate_pricing_cache(rule_id)
invalidate_pricing_cache(rule_id) ==
    /\ redis' = redis_delete(redis, pricing_rule_key(rule_id))
    /\ cached' = [cached EXCEPT ![rule_id] = None]
    /\ last' = Last("invalidate_pricing_cache", [id |-> rule_id], "", <<>>, "")
    /\ UNCHANGED <<bus, queues, drivers, trips, tasks, pending, picks, connected, log,
                   clock>>

\* a caller reads the cache
read_cached_pricing_rule(rule_id) ==
    /\ last' = Last("get_cached_pricing_rule", [id |-> rule_id], "", <<>>, "")
                   @@ [result |-> get_cached_pricing_rule(redis, rule_id)]
    /\ UNCHANGED <<bus, queues, drivers, trips, tasks, pending, picks, connected, log,
                   clock, redis, cached>>

CacheNext ==
    \/ \E id \in RuleIds, data \in RuleData : cache_pricing_rule(id, data)
    \/ \E id \in RuleIds : invalidate_pricing_cache(id)
    \/ \E id \in RuleIds : read_cached_pricing_rule(id)

SpecCache == Init /\ [][CacheNext]_vars

\* ------------------------------------------------ both services, any requests
\* The two services on one exchange with the API called at any time: a trip
\* may be requested while no driver is available or before the driver
\* service has subscribed, and a driver may be made available at any time.
OpenNext ==
    \/ driver_startup
    \/ trip_startup
    \/ create_driver
    \/ \E d \in DriverIds : set_available(d)
    \/ create_trip
    \/ \E event \in pending : publish_requested(event)
    \/ take_trip_requested
    \/ \E k \in TaskIds : publish_assigned(k)
    \/ take_driver_assigned

SpecOpen == Init /\ [][OpenNext]_vars

\* ================================================================ claims

\* C1: selecting an available driver and marking it unavailable is one
\* atomic step under any interleaving of the handlers' store operations: a
\* driver is picked by at most one handler between two times it is made
\* available.
C1_NoDoublePick == \A d \in DriverIds : picks[d] <= 1

C3_NoDriverNoEffect ==
    [][ (last'.op = "on_trip_requested" /\ Available(drivers) = {})
           => /\ drivers' = drivers
              /\ tasks' = tasks
              /\ queues' = queues
              /\ last'.sent = <<>>
              /\ last'.err = ""
              /\ last'.ack = "ack"
      ]_vars

C3_Witness ==
    /\ last.op = "on_trip_requested"
    /\ on_trip_requested_accepts(Decode(last.arg))
    /\ last.ack = "ack"
    /\ DOMAIN drivers # {}
    /\ Available(drivers) = {}

\* C6: the same trip.requested event delivered again to the driver reactor
\* changes nothing: no further driver is made unavailable and no further
\* driver.assigned event is prepared for publishing.
C6_DuplicateTripRequested ==
    [][ ( /\ last.op \in {"on_trip_requested", "on_trip_requested.publish"}
          /\ last'.op = "on_trip_requested"
          /\ last'.arg = last.arg )
           => (drivers' = drivers /\ tasks' = tasks)
      ]_vars

\* the event of the last handler invocation
LastEvent == Decode(last.arg)
NamesTrip(event) == Truthy(Get(event.payload, "trip_id"))
NamesDriver(event) == Truthy(Get(event.payload, "driver_id"))
TripOf(event) == event.payload["trip_id"][1]

\* C4: a driver.assigned event {trip_id, driver_id} for a stored trip sets
\* that trip to ASSIGNED with assigned_driver_id the event's driver_id and
\* changes nothing else in the trip store.
C4_AssignsTrip ==
    [][ ( /\ last'.op = "on_driver_assigned"
          /\ LastEvent'.name = "driver.assigned"
          /\ NamesTrip(LastEvent') /\ NamesDriver(LastEvent')
          /\ TripOf(LastEvent') \in DOMAIN trips )
           => /\ trips' = [trips EXCEPT
                    ![TripOf(LastEvent')].status = "ASSIGNED",
                    ![TripOf(LastEvent')].assigned_driver_id =
                        LastEvent'.payload["driver_id"]]
              /\ last'.err = ""
      ]_vars

C4_Witness ==
    /\ last.op = "on_driver_assigned"
    /\ LastEvent.name = "driver.assigned"
    /\ LastEvent.payload = [trip_id |-> Some("t1"), driver_id |-> Some("d2")]
    /\ DOMAIN trips = {"t1", "t2"}
    /\ trips["t1"].status = "ASSIGNED"
    /\ trips["t1"].assigned_driver_id = Some("d2")
    /\ trips["t2"].status = "REQUESTED"

\* C5: the same driver.assigned event delivered a second time leaves the
\* trip store exactly as the first delivery left it.
C5_DuplicateDriverAssigned ==
    [][ (last'.op = "on_driver_assigned" /\ last'.rep = 2) => trips' = trips ]_vars

C5_Witness ==
    /\ last.op = "on_driver_assigned"
    /\ last.rep = 2
    /\ LastEvent.name = "driver.assigned"
    /\ LastEvent.payload = [trip_id |-> Some("t1"), driver_id |-> Some("d1")]
    /\ "t1" \in DOMAIN trips
    /\ trips["t1"].status = "ASSIGNED"
    /\ trips["t1"].assigned_driver_id = Some("d1")

C8_AssignmentForMissingTrip ==
    [][ ( /\ last'.op = "on_driver_assigned"
          /\ LastEvent'.name = "driver.assigned"
          /\ NamesTrip(LastEvent') /\ NamesDriver(LastEvent')
          /\ TripOf(LastEvent') \notin DOMAIN trips )
           => /\ TripStore_error(trips, TripOf(LastEvent')) = "KeyError"
              /\ last'.err = ""
              /\ last'.ack = "ack"
              /\ trips' = trips
      ]_vars

C8_Witness ==
    /\ last.op = "on_driver_assigned"
    /\ LastEvent.name = "driver.assigned"
    /\ LastEvent.payload = [trip_id |-> Some("t2"), driver_id |-> Some("d1")]
    /\ DOMAIN trips = {"t1"}
    /\ last.ack = "ack"

\* C9: a pricing.quoted event for a stored trip sets that trip's estimated
\* price to the quoted value and changes nothing else: not its status, its
\* assigned driver or its final price, and no other trip.
C9_QuoteSetsEstimateOnly ==
    [][ ( /\ last'.op = "on_pricing_quoted"
          /\ LastEvent'.name = "pricing.quoted"
          /\ NamesTrip(LastEvent')
          /\ Get(LastEvent'.payload, "estimated_price_dkk") # None
          /\ TripOf(LastEvent') \in DOMAIN trips )
           => trips' = [trips EXCEPT
                 ![TripOf(LastEvent')].estimated_price_dkk =
                     LastEvent'.payload["estimated_price_dkk"]]
      ]_vars

C9_Witness ==
    /\ last.op = "on_pricing_quoted"
    /\ LastEvent.name = "pricing.quoted"
    /\ LastEvent.payload = [trip_id |-> Some("t1"), estimated_price_dkk |-> Some(0)]
    /\ DOMAIN trips = {"t1", "t2"}
    /\ trips["t1"].estimated_price_dkk = Some(0)
    /\ trips["t1"].status = "ASSIGNED"
    /\ trips["t2"].estimated_price_dkk = Some(99)

\* C10: on a bus whose connect() has never completed, publish and subscribe
\* fail with "RabbitBus not connected" and have no effect: nothing is sent,
\* no queue is declared or bound, no handler is registered.
C10_NotConnected ==
    [][ (last'.op \in {"publish", "subscribe"} /\ last'.arg.svc \notin connected)
           => /\ last'.err = NotConnected
              /\ last'.sent = <<>>
              /\ queues' = queues
              /\ bus' = bus
      ]_vars

C10_Witness ==
    /\ last.op = "subscribe"
    /\ last.err = NotConnected
    /\ "trip" \notin connected
    /\ bus["trip"].channel = "open"
    /\ \A q \in QueueNames : ~queues[q].declared

\* C11: with the transport unreachable, connect() calls connect_robust
\* exactly 10 times and then raises the connection error; the bus is not
\* connected afterwards.
C11_TenAttempts ==
    (last.op = "connect" /\ last.arg.outcome = "connect_failed")
        => /\ last.arg.calls = 10
           /\ last.err = "ConnectionError"
           /\ ~Running(last.arg.svc)

\* the bus of service s was connected and close() has been called on it
Closed(s) == bus[s].exchange = "closed"

\* C12: after close() on a connected bus, every publish and every subscribe
\* fails with "RabbitBus not connected" and sends nothing.
C12_ClosedRefuses ==
    (last.op \in {"publish", "subscribe"} /\ Closed(last.arg.svc))
        => /\ last.err = NotConnected
           /\ last.sent = <<>>

\* C13: Closed is terminal: no operation takes a bus that was closed back
\* to Connected.
C13_ClosedIsTerminal ==
    [][ \A s \in Services : Closed(s) => ~Running(s)' ]_vars

\* the bodies of queue q
InQueue(q) == {queues[q].msgs[i] : i \in 1..Len(queues[q].msgs)}

\* C14: a delivery takes the message out of its queue for good: it is
\* acknowledged exactly when decoding and the handler raised nothing, it is
\* rejected otherwise, no queue gets it back, and no message is handed to
\* the consumer of a queue twice.
C14_AckAfterHandler ==
    /\ [][ last'.op = "deliver"
             => /\ last'.arg.body = Head(queues[last'.arg.queue].msgs)
                /\ last'.ack = (IF last'.err = "" THEN "ack" ELSE "reject")
                /\ \A q \in QueueNames :
                      queues'[q].msgs = IF q = last'.arg.queue THEN Tail(queues[q].msgs)
                                        ELSE queues[q].msgs
         ]_vars
    /\ [](\A key \in DOMAIN log.delivered :
            /\ log.delivered[key] = 1
            /\ key[2] \notin InQueue(key[1]))

C14_Witness ==
    /\ last.op = "deliver"
    /\ last.err = "Exception"
    /\ last.ack = "reject"
    /\ log.delivered = (<<last.arg.queue, last.arg.body>> :> 1)
    /\ \A q \in QueueNames : queues[q].msgs = <<>>
    /\ queues[last.arg.queue].consumers # {}

\* the well-formed bodies that may be published
EventBodies == UNION {{Encode(e) : e \in BusEvents("trip", id)} : id \in EventIds}

Invocations(key) == IF key \in DOMAIN log.invoked THEN log.invoked[key] ELSE 0

\* C15: an event published through a connected bus is handed to the handler
\* of every queue bound to its name exactly once: until then it waits in
\* that queue, it is never handed over twice, and while the queue has a
\* consumer it is handed over eventually.
C15_ExactlyOnce ==
    /\ [](\A key \in log.routed :
            Decodable(key[2])
                => \/ Invocations(key) = 0 /\ key[2] \in InQueue(key[1])
                   \/ Invocations(key) = 1 /\ key[2] \notin InQueue(key[1]))
    /\ [](DOMAIN log.invoked \subseteq log.routed)
    /\ \A q \in BusQueues, body \in EventBodies :
            (<<q, body>> \in log.routed)
                ~> (Invocations(<<q, body>>) = 1 \/ queues[q].consumers = {})

C15_Witness ==
    \E body \in EventBodies :
        /\ body["name"] = "trip.requested"
        /\ \A q \in BusQueues : Invocations(<<q, body>>) = 1
        /\ last.op = "deliver"
        /\ last.err = ""

\* the one event name each handler reacts to, and the payload keys it needs
Expected ==
    [on_trip_requested |-> "trip.requested", on_driver_assigned |-> "driver.assigned",
     on_pricing_quoted |-> "pricing.quoted"]
RequiredKeys ==
    [on_trip_requested |-> {"trip_id"}, on_driver_assigned |-> {"trip_id", "driver_id"},
     on_pricing_quoted |-> {"trip_id", "estimated_price_dkk"}]

\* the step changes no store, starts no handler work and sends nothing
NoEffect ==
    /\ drivers' = drivers
    /\ trips' = trips
    /\ tasks' = tasks
    /\ queues' = queues
    /\ last'.sent = <<>>

\* C16: a message whose body lacks an envelope field fails in decoding with
\* a TypeError before any handler runs: no store changes, nothing is
\* published, and the message is rejected (without requeue).
C16_MalformedDropped ==
    [][ (last'.op \in DOMAIN Expected /\ EnvelopeFields \ DOMAIN last'.arg # {})
           => /\ last'.err = "TypeError"
              /\ last'.ack = "reject"
              /\ NoEffect
      ]_vars

C16_Witness ==
    /\ last.op = "on_driver_assigned"
    /\ DOMAIN last.arg = EnvelopeFields \ {"id"}
    /\ last.arg["payload"] = [trip_id |-> Some(AnyTrip), driver_id |-> Some(AnyDriver)]
    /\ last.ack = "reject"
    /\ AnyTrip \in DOMAIN trips
    /\ trips[AnyTrip].status = "REQUESTED"

C18_WrongNameIgnored ==
    [][ ( /\ last'.op \in DOMAIN Expected
          /\ Decodable(last'.arg)
          /\ LastEvent'.name # Expected[last'.op] )
           => /\ last'.err = ""
              /\ last'.ack = "ack"
              /\ NoEffect
      ]_vars

C18_Witness ==
    /\ last.op = "on_driver_assigned"
    /\ Decodable(last.arg)
    /\ LastEvent.name = "trip.completed"
    /\ LastEvent.payload = [trip_id |-> Some(AnyTrip), driver_id |-> Some(AnyDriver)]
    /\ last.ack = "ack"
    /\ AnyTrip \in DOMAIN trips
    /\ trips[AnyTrip].assigned_driver_id = None

\* C19: each handler returns without raising, changes no store and
\* publishes nothing on an event of its name whose payload lacks a key it
\* needs; a trip.requested without trip_id makes no driver unavailable.
C19_MissingKeyIgnored ==
    [][ ( /\ last'.op \in DOMAIN Expected
          /\ Decodable(last'.arg)
          /\ LastEvent'.name = Expected[last'.op]
          /\ RequiredKeys[last'.op] \ DOMAIN LastEvent'.payload # {} )
           => /\ last'.err = ""
              /\ last'.ack = "ack"
              /\ NoEffect
      ]_vars

C19_Witness ==
    /\ last.op = "on_trip_requested"
    /\ Decodable(last.arg)
    /\ LastEvent.name = "trip.requested"
    /\ "trip_id" \notin DOMAIN LastEvent.payload
    /\ last.ack = "ack"
    /\ Available(drivers) # {}

\* C20: the handler invocations of one queue are serialized: at most one
\* on_trip_requested invocation of the queue driver.trip-requested is in
\* flight at any time.
C20_OneHandlerPerQueue == Cardinality({k \in TaskIds : tasks[k].pc # "idle"}) <= 1

\* -------------------------------------------------------------- C21
\* C21: a handler in flight when close() is called on its bus still runs
\* to completion: the publish of its follow-up event takes effect and the
\* handler does not end in an error, so its message is acknowledged.
C21_InFlightHandlerCompletes ==
    last.op = "on_trip_requested.publish"
        => /\ last.err = ""
           /\ Len(last.sent) = 1
           /\ last.ack = "ack"

\* -------------------------------------------------------------- C22
\* the trip is ASSIGNED to a driver that a handler picked while it was
\* available, and that driver is unavailable
AssignedToPicked(t) ==
    /\ t \in DOMAIN trips
    /\ trips[t].status = "ASSIGNED"
    /\ \E d \in DOMAIN drivers :
        /\ trips[t].assigned_driver_id = Some(d)
        /\ picks[d] = 1
        /\ ~drivers[d].available

C23_DriverLifecycle ==
    [][\A d \in DriverIds :
        /\ (d \notin DOMAIN drivers /\ d \in DOMAIN drivers')
               => ~drivers'[d].available /\ last'.op = "create_driver"
        /\ d \in DOMAIN drivers =>
            /\ d \in DOMAIN drivers'
            /\ (~drivers[d].available /\ drivers'[d].available)
                   => last'.op = "set_available" /\ last'.arg = [id |-> d]
            /\ (drivers[d].available /\ ~drivers'[d].available)
                   => /\ last'.op = "on_trip_requested"
                      /\ picks'[d] = picks[d] + 1
        /\ picks'[d] > picks[d]
               => /\ d \in DOMAIN drivers
                  /\ drivers[d].available
                  /\ picks[d] = 0
                  /\ ~drivers'[d].available]_vars

\* a driver made available a second time has been assigned a second time
C23_Witness ==
    /\ last.op = "on_trip_requested"
    /\ last.rep = 2
    /\ \E k \in TaskIds, d \in DOMAIN drivers :
        /\ tasks[k].pc = "publish"
        /\ tasks[k].driver = Some(d)
        /\ ~drivers[d].available
        /\ picks[d] = 1

\* -------------------------------------------------------------- C24
\* C24: the set-available API operation on an existing driver succeeds: it
\* stores available = true for the driver and ends in no error.
C24_SetAvailableSucceeds ==
    (last.op = "set_available" /\ last.arg.id \in DOMAIN drivers)
        => /\ drivers[last.arg.id].available
           /\ last.err = ""

\* -------------------------------------------------------------- C25
\* C25: the set-available operation on a driver id that does not exist
\* ends in the not-found error (KeyError in the store, 404 at the API) and
\* leaves the driver store unchanged.
C25_SetAvailableNotFound ==
    [][\A d \in DriverIds :
        (last'.op = "set_available" /\ last'.arg = [id |-> d] /\ d \notin DOMAIN drivers)
            => /\ DriverStore_set_available_error(drivers, d) = "KeyError"
               /\ last'.err = "HTTPException 404"
               /\ drivers' = drivers]_vars

\* the call named a driver that is missing from a store that has others
C25_Witness ==
    /\ last.op = "set_available"
    /\ last.err = "HTTPException 404"
    /\ last.arg.id \notin DOMAIN drivers
    /\ Available(drivers) # {}

\* -------------------------------------------------------------- C26
\* C26: trip status only moves forward along REQUESTED, ASSIGNED,
\* COMPLETED: over any sequence of create, driver.assigned, pricing.quoted
\* and complete operations a trip that is COMPLETED stays COMPLETED, and
\* the status is always one of the three values.
C26_StatusMovesForward ==
    [][\A t \in DOMAIN trips :
        /\ t \in DOMAIN trips'
        /\ trips'[t].status \in {"REQUESTED", "ASSIGNED", "COMPLETED"}
        /\ trips[t].status = "COMPLETED" => trips'[t].status = "COMPLETED"
        /\ trips[t].status = "ASSIGNED" => trips'[t].status # "REQUESTED"]_vars

\* -------------------------------------------------------------- C27
\* C27: a successful create_trip stores exactly one new trip, REQUESTED,
\* with no assigned driver and no prices, and publishes exactly one
\* trip.requested event whose payload carries the id, rider_id, pickup and
\* dropoff of that trip.
C27_CreateTrip ==
    [][/\ last'.op = "create_trip" =>
            LET id == last'.arg.id
            IN /\ id \notin DOMAIN trips
               /\ DOMAIN trips' = DOMAIN trips \cup {id}
               /\ \A t \in DOMAIN trips : trips'[t] = trips[t]
               /\ trips'[id].id = id
               /\ trips'[id].status = "REQUESTED"
               /\ trips'[id].assigned_driver_id = None
               /\ trips'[id].estimated_price_dkk = None
               /\ trips'[id].final_price_dkk = None
               /\ pending \subseteq pending'
               /\ Cardinality(pending' \ pending) = 1
               /\ last'.sent = <<>>
       /\ (last'.op = "create_trip.publish" /\ last'.err = "") =>
            LET id == last'.arg.id
                trip == TripStore_get(trips, id)[1]
            IN /\ trips' = trips
               /\ Len(last'.sent) = 1
               /\ last'.sent[1].rk = "trip.requested"
               /\ Decode(last'.sent[1].body).name = "trip.requested"
               /\ Decode(last'.sent[1].body).payload =
                      [trip_id |-> Some(id), rider_id |-> Some(trip.rider_id),
                       pickup |-> Some(trip.pickup), dropoff |-> Some(trip.dropoff)]
               /\ Decode(last'.sent[1].body) \in pending
               /\ pending' = pending \ {Decode(last'.sent[1].body)}]_vars

\* the second trip has been stored and its event published, both trips
\* still as they were created
C27_Witness ==
    /\ last.op = "create_trip.publish"
    /\ last.err = ""
    /\ DOMAIN trips = TripIds
    /\ \A t \in TripIds : trips[t].status = "REQUESTED"
    /\ pending = {}
    /\ Decode(last.sent[1].body).payload["trip_id"] = Some(last.arg.id)
    /\ last.arg.id # "t1"

\* -------------------------------------------------------------- C28
\* publish sends the event under its name, and subscribe adds exactly the
\* given name to the bindings of its queue and of no other queue
KeyedByName ==
    /\ (last'.op = "publish" /\ last'.err = "") =>
           /\ Len(last'.sent) = 1
           /\ last'.sent[1].rk = last'.arg.name
           /\ Decode(last'.sent[1].body).name = last'.arg.name
    /\ (last'.op = "subscribe" /\ last'.err = "") =>
           \A q \in QueueNames :
               queues'[q].bindings =
                   IF q = last'.arg.queue
                   THEN queues[q].bindings \cup {last'.arg.name}
                   ELSE queues[q].bindings

\* C28 as stated: publish uses the event's name as routing key, subscribe
\* binds its queue with exactly the given name, and a handler registered
\* for event name n is invoked only for messages published with name n.
C28_HandlerSeesItsNameOnly ==
    [][/\ KeyedByName
       /\ last'.op = "deliver" =>
              Decode(last'.arg.body).name = last'.arg.name]_vars

\* C28 as amended: publish uses the event's name as routing key, subscribe
\* binds its queue with exactly the given name, and a handler is invoked
\* only for messages published with a name its queue is bound with: with
\* name n only, when n is the one name the queue was subscribed under.
C28_RoutedByName ==
    [][/\ KeyedByName
       /\ last'.op = "deliver" =>
              /\ Decode(last'.arg.body).name \in queues[last'.arg.queue].bindings
              /\ last'.arg.name \in queues[last'.arg.queue].bindings
              /\ queues[last'.arg.queue].bindings = {last'.arg.name}
                     => Decode(last'.arg.body).name = last'.arg.name]_vars

\* a handler of a queue subscribed under one name has been handed an event
\* while an event of the other name waits in the other queue
C28_Witness ==
    /\ last.op = "deliver"
    /\ queues[last.arg.queue].bindings = {last.arg.name}
    /\ Decode(last.arg.body).name = last.arg.name
    /\ \E q \in BusQueues \ {last.arg.queue} :
        /\ queues[q].msgs # <<>>
        /\ Decode(Head(queues[q].msgs)).name # last.arg.name

\* -------------------------------------------------------------- C29
\* C29: within one process the ts values of successively emitted events
\* are non-decreasing: an event created later by now_iso never carries a
\* ts smaller than one created earlier.
C29_TsNonDecreasing ==
    \A i, j \in DOMAIN clock.emitted :
        i < j => ~StrLess(clock.emitted[j], clock.emitted[i])

NothingUnderWay(t) ==
    /\ \A event \in pending : event.payload["trip_id"] # Some(t)
    /\ \A q \in QueueNames : \A i \in DOMAIN queues[q].msgs :
           Get(Decode(queues[q].msgs[i]).payload, "trip_id") # Some(t)
    /\ \A k \in TaskIds :
           tasks[k].pc # "idle" => Get(Decode(tasks[k].body).payload, "trip_id") # Some(t)

\* C31: no retry is scheduled for a dropped request: once the
\* trip.requested event of a trip has been handled while no driver was
\* available, nothing is under way for the trip, and a REQUESTED trip with
\* nothing under way stays so whatever drivers become available later (no
\* operation publishes a second trip.requested for it).
C31_DroppedStaysRequested ==
    [][\A t \in DOMAIN trips :
        /\ (/\ last'.op = "on_trip_requested"
            /\ Decodable(last'.arg)
            /\ Get(Decode(last'.arg).payload, "trip_id") = Some(t)
            /\ Available(drivers) = {})
               => /\ NothingUnderWay(t)'
                  /\ trips'[t].status = "REQUESTED"
                  /\ drivers' = drivers
        /\ (trips[t].status = "REQUESTED" /\ NothingUnderWay(t))
               => /\ trips'[t].status = "REQUESTED"
                  /\ NothingUnderWay(t)']_vars

\* the handler has just dropped the request of a trip for want of an
\* available driver, with a driver in the store that can be made available
C31_Witness ==
    /\ last.op = "on_trip_requested"
    /\ last.ack = "ack"
    /\ DOMAIN drivers # {}
    /\ Available(drivers) = {}
    /\ \A d \in DriverIds : picks[d] = 0
    /\ \E t \in DOMAIN trips :
        /\ Get(Decode(last.arg).payload, "trip_id") = Some(t)
        /\ trips[t].status = "REQUESTED"
        /\ NothingUnderWay(t)

\* -------------------------------------------------------------- C32
\* C32: after a trip is created, no event handler and no store mutation
\* (assign_driver, set_estimate, complete) changes its id, rider_id, pickup
\* or dropoff, and no handler creates or deletes a trip or a driver.
C32_Frame ==
    [][/\ \A t \in DOMAIN trips :
            /\ t \in DOMAIN trips'
            /\ trips'[t].id = trips[t].id
            /\ trips'[t].rider_id = trips[t].rider_id
            /\ trips'[t].pickup = trips[t].pickup
            /\ trips'[t].dropoff = trips[t].dropoff
       /\ DOMAIN drivers \subseteq DOMAIN drivers'
       /\ last'.op \in {"on_trip_requested", "on_trip_requested.publish",
                        "on_driver_assigned", "on_pricing_quoted", "complete"}
              => /\ DOMAIN trips' = DOMAIN trips
                 /\ DOMAIN drivers' = DOMAIN drivers]_vars

\* a trip has been assigned, quoted and completed, and a handler has run
\* for a trip that does not exist
C32_Witness ==
    /\ \E t \in DOMAIN trips :
        /\ trips[t].status = "COMPLETED"
        /\ trips[t].assigned_driver_id # None
        /\ trips[t].estimated_price_dkk # None
        /\ trips[t].id = t
        /\ trips[t].rider_id \in RiderIds
    /\ DOMAIN trips # TripIds
    /\ last.op = "on_pricing_quoted"
    /\ Decodable(last.arg)
    /\ on_pricing_quoted_accepts(Decode(last.arg))
    /\ Decode(last.arg).payload["trip_id"][1] \notin DOMAIN trips

\* -------------------------------------------------------------- C33
\* C33: marking a driver unavailable and emitting driver.assigned go
\* together: when a handler that has marked a driver unavailable ends, it
\* has published a driver.assigned event naming the driver, and a publish
\* that fails never leaves the driver unavailable with no such event.
C33_UnavailableMeansAssigned ==
    [][\A k \in TaskIds :
        (tasks[k].pc = "publish" /\ tasks'[k].pc = "idle")
            => \/ /\ Len(last'.sent) = 1
                  /\ last'.sent[1].rk = "driver.assigned"
                  /\ Decode(last'.sent[1].body).payload["driver_id"] = tasks[k].driver
               \/ drivers'[tasks[k].driver[1]].available]_vars

\* -------------------------------------------------------------- C34
\* C34: create_trip commits the trip before it publishes trip.requested,
\* so the trip exists when the trip reactor handles the driver.assigned
\* event produced in reaction to it, in every interleaving: the event is
\* never ignored as naming a missing trip, and the trip takes its driver.
C34_TripExistsWhenAssigned ==
    [][last'.op = "on_driver_assigned" =>
          /\ Decodable(last'.arg)
          /\ on_driver_assigned_accepts(Decode(last'.arg))
          /\ LET t == Decode(last'.arg).payload["trip_id"][1]
             IN /\ TripStore_error(trips, t) = ""
                /\ last'.err = ""
                /\ trips'[t].status = "ASSIGNED"
                /\ trips'[t].assigned_driver_id = Decode(last'.arg).payload["driver_id"]]_vars

\* the second trip created has been assigned while the first, requested
\* before a driver was available, has not
C34_Witness ==
    /\ last.op = "on_driver_assigned"
    /\ DOMAIN trips = TripIds
    /\ \E t, u \in TripIds :
        /\ Decode(last.arg).payload["trip_id"] = Some(t)
        /\ trips[t].status = "ASSIGNED"
        /\ trips[u].status = "REQUESTED"
        /\ NothingUnderWay(u)

\* -------------------------------------------------------------- C35
\* C35: the driver.assigned and pricing.quoted handlers commute: from any
\* store the two handlers leave the same trip store whichever runs first,
\* for every driver.assigned and pricing.quoted event naming one trip,
\* stored or not.
C35_HandlersCommute ==
    \A t \in TripIds :
    \A a \in Received("driver.assigned",
                      {[trip_id |-> Some(t), driver_id |-> Some(d)] : d \in DriverIds}) :
    \A q \in Received("pricing.quoted",
                      {[trip_id |-> Some(t), estimated_price_dkk |-> Some(p)] : p \in Prices}) :
        on_pricing_quoted(on_driver_assigned(trips, Decode(a)), Decode(q))
            = on_driver_assigned(on_pricing_quoted(trips, Decode(q)), Decode(a))

\* both handlers have acted on one trip, the quote last
C35_Witness ==
    /\ last.op = "on_pricing_quoted"
    /\ last.err = ""
    /\ \E t \in DOMAIN trips :
        /\ Decode(last.arg).payload["trip_id"] = Some(t)
        /\ trips[t].status = "ASSIGNED"
        /\ trips[t].assigned_driver_id # None
        /\ trips[t].estimated_price_dkk # None

\* -------------------------------------------------------------- C36
\* C36: at any time no two trips with status ASSIGNED have the same
\* assigned_driver_id, over every sequence of set-available calls, trip
\* creations and event deliveries.
C36_OneTripPerDriver ==
    \A t, u \in DOMAIN trips :
        (/\ t # u
         /\ trips[t].status = "ASSIGNED"
         /\ trips[u].status = "ASSIGNED")
            => trips[t].assigned_driver_id # trips[u].assigned_driver_id

\* -------------------------------------------------------------- C37
\* C37: once a trip's assigned_driver_id is non-null it never changes to
\* a different driver and never returns to null, over every sequence of
\* event deliveries and store operations.
C37_AssignedDriverKept ==
    [][\A t \in DOMAIN trips :
          trips[t].assigned_driver_id # None
              => /\ t \in DOMAIN trips'
                 /\ trips'[t].assigned_driver_id = trips[t].assigned_driver_id]_vars

\* -------------------------------------------------------------- C38
\* C38: in every reachable state of the trip store, status and
\* assigned_driver_id agree: a REQUESTED trip has no assigned driver and
\* an ASSIGNED trip has a non-null assigned_driver_id.
C38_StatusAgreesWithDriver ==
    \A t \in DOMAIN trips :
        /\ trips[t].status = "REQUESTED" => trips[t].assigned_driver_id = None
        /\ trips[t].status = "ASSIGNED" => /\ trips[t].assigned_driver_id # None
                                           /\ Truthy(trips[t].assigned_driver_id)

\* one trip assigned by the handler, another still as create_trip left it
C38_Witness ==
    /\ last.op = "on_driver_assigned"
    /\ last.err = ""
    /\ \E t, u \in DOMAIN trips :
        /\ Decode(last.arg).payload["trip_id"] = Some(t)
        /\ trips[t].status = "ASSIGNED"
        /\ trips[t].assigned_driver_id = Decode(last.arg).payload["driver_id"]
        /\ trips[u].status = "REQUESTED"

\* -------------------------------------------------------------- C39
\* C39: queues are declared and bound only by subscribe, never by
\* publish: an event published while no queue is bound to its name enters
\* no queue, and a consumer is handed only what the exchange put in its
\* queue, so a subscriber that binds later is never handed that event.
Bound(qs, q, name) == qs[q].declared /\ name \in qs[q].bindings

C39_UnboundEventDropped ==
    [][/\ (\E q \in QueueNames : \/ queues'[q].declared # queues[q].declared
                                 \/ queues'[q].bindings # queues[q].bindings)
              => /\ last'.op = "subscribe"
                 /\ last'.err = ""
       /\ last'.op \in {"publish", "foreign_publish"} /\ last'.sent # <<>>
              => LET msg == last'.sent[1]
                 IN /\ \A q \in QueueNames :
                          ~Bound(queues, q, msg.rk) =>
                              /\ queues'[q] = queues[q]
                              /\ <<q, msg.body>> \notin log'.routed
                    /\ (\A q \in QueueNames : ~Bound(queues, q, msg.rk))
                          => /\ queues' = queues
                             /\ log'.routed = log.routed
       /\ \A d \in DOMAIN log'.delivered : d \in log'.routed]_vars

\* every event so far was published while no queue was bound and none is
\* in a queue; a subscriber has now bound trip.requested
C39_Witness ==
    /\ last.op = "subscribe"
    /\ last.err = ""
    /\ last.arg.name = "trip.requested"
    /\ log.ids = EventIds
    /\ log.routed = {}
    /\ \A q \in QueueNames : queues[q].msgs = <<>>
    /\ \E q \in QueueNames : Bound(queues, q, "trip.requested")

\* -------------------------------------------------------------- C40
\* C40: close() on a client that was never connected is a no-op: it
\* raises no error and leaves connection, channel and exchange unset, so
\* publish and subscribe still fail with "not connected" afterwards.
C40_CloseWithoutConnection ==
    [][\A s \in Services :
          (/\ last'.op = "close"
           /\ last'.arg = [svc |-> s]
           /\ bus[s] = RabbitBus)
              => /\ last'.err = ""
                 /\ bus'[s] = RabbitBus
                 /\ bus'[s].conn = "None"
                 /\ bus'[s].channel = "None"
                 /\ bus'[s].exchange = "None"
                 /\ queues' = queues
                 /\ publish_error(bus'[s]) = NotConnected
                 /\ subscribe_error(bus'[s]) = NotConnected]_vars

\* close() has returned on a client that no connect() ever touched, and
\* its publish and subscribe would fail "not connected"
C40_Witness ==
    /\ last.op = "close"
    /\ last.arg = [svc |-> "trip"]
    /\ last.err = ""
    /\ "trip" \notin connected
    /\ bus["trip"] = RabbitBus
    /\ publish_error(bus["trip"]) = NotConnected
    /\ subscribe_error(bus["trip"]) = NotConnected

====
